---- MODULE Spec2Model ----
(***************************************************************************)
(* Model of natural_sort_order() and normalizeNumeric() of                 *)
(* pg_natural_sort_order.c.                                                *)
(*                                                                         *)
(* Bytes are their ASCII codes (48..57 are '0'..'9').  The output buffer   *)
(* is the sequence of the bytes written so far: every write of the code is *)
(* to[toStart++] or outputBuffer[j++], so the written bytes are always the *)
(* prefix 0..j-1 of the buffer and Len(outputBuffer) = j.                  *)
(*                                                                         *)
(* Spec      runs one call iteration by iteration (one step per pass of    *)
(*           the for loop, then the post-loop flush, then the return).     *)
(* SpecCall  runs one call as a single step; the result of the call is the *)
(*           fold of the same loop body over the input.                    *)
(***************************************************************************)
EXTENDS Integers, Sequences, FiniteSets, TLC

VARIABLES original, width, numericSize, i, j, k,
          numericBuffer, outputBuffer, warnings, pc

vars == <<original, width, numericSize, i, j, k,
          numericBuffer, outputBuffer, warnings, pc>>

----------------------------------------------------------------------------
(* Program constants *)

NUMERIC_NORMALIZATION_DEFAULT_SIZE == 75
NUMERIC_NORMALIZATION_MAX_SIZE == 150
OUTPUT_BUFFER_LENGTH == 10000
NUMERIC_BUFFER_LENGTH == 200
\* palloc(OUTPUT_BUFFER_LENGTH + 10): the "+ 10" of the allocation
ALLOC_SLACK == 10
\* size of the varlena header that precedes the data bytes of a text
VARHDRSZ == 4
\* number of data bytes of the allocation that VARDATA_ANY(outputBuffer)
\* points at; a write at a data index >= this is outside the allocation
OUTPUT_DATA_SIZE == OUTPUT_BUFFER_LENGTH + ALLOC_SLACK - VARHDRSZ

\* the SQL NULL argument / result: a value that is no byte string
NULL == <<-1>>
\* content of a numericBuffer cell that was never written
UNINIT == -1

----------------------------------------------------------------------------
(* Bounds of the checked inputs *)

\* inputs are all byte strings of length <= MaxLen over Alphabet ...
MaxLen == 4
\* ... and the strings ("1a")^n for n in Reps-2 .. Reps, with and without a
\* trailing "1", whose output reaches the capacity at width 150
Reps == 68
\* digit runs tried as the replacement run have at most MaxRun digits
MaxRun == 2

Alphabet == {48, 49, 97, 98}

Rep(u, n) == [x \in 1..(n * Len(u)) |-> u[((x - 1) % Len(u)) + 1]]

Strings(n) == UNION {[1..m -> Alphabet] : m \in 0..n}

\* "abc123def", "track7", "v1.2.10", "item2", "item10"
Examples ==
    { <<97, 98, 99, 49, 50, 51, 100, 101, 102>>,
      <<116, 114, 97, 99, 107, 55>>,
      <<118, 49, 46, 50, 46, 49, 48>>,
      <<105, 116, 101, 109, 50>>,
      <<105, 116, 101, 109, 49, 48>> }

LongInputs ==
    UNION { { Rep(<<49, 97>>, n), Rep(<<49, 97>>, n) \o <<49>> } : n \in (Reps - 2)..Reps }

Inputs == Strings(MaxLen) \cup Examples \cup LongInputs

Widths == {-1, 0, 1, 2, 3, 5, 75, 150, 151, 999}

----------------------------------------------------------------------------
(* The code *)

\* isdigit() of <ctype.h> on an ASCII byte (the inputs hold bytes below 128
\* only: a byte above 127 reaches isdigit as a negative char)
isdigit(c) == c \in 48..57

\* a clamp that sends the width NUMERIC_NORMALIZATION_MAX_SIZE itself to the default
EffectiveSizeExclusive(w) ==
    IF w > 0 /\ w < NUMERIC_NORMALIZATION_MAX_SIZE
    THEN w ELSE NUMERIC_NORMALIZATION_DEFAULT_SIZE

\* line 93: the width used by the call
EffectiveSize(w) ==
    IF w > 0 /\ w <= NUMERIC_NORMALIZATION_MAX_SIZE
    THEN w ELSE NUMERIC_NORMALIZATION_DEFAULT_SIZE

Max(a, b) == IF a > b THEN a ELSE b

\* a padding that is one zero short
normalizeNumericShortPad(to, from, toStart, fromLength, normalizationSize) ==
    LET nz == Max(normalizationSize - fromLength - 1, 0)
    IN  [ to      |-> SubSeq(to, 1, toStart)
                        \o [x \in 1..nz |-> 48]
                        \o SubSeq(from, 1, fromLength),
          toStart |-> toStart + nz + fromLength ]

\* a copy of the digits without any padding
normalizeNumericNoPad(to, from, toStart, fromLength, normalizationSize) ==
    [ to      |-> SubSeq(to, 1, toStart) \o SubSeq(from, 1, fromLength),
      toStart |-> toStart + fromLength ]

\* a padding that is one zero long
normalizeNumericLongPad(to, from, toStart, fromLength, normalizationSize) ==
    LET nz == Max(normalizationSize - fromLength + 1, 0)
    IN  [ to      |-> SubSeq(to, 1, toStart)
                        \o [x \in 1..nz |-> 48]
                        \o SubSeq(from, 1, fromLength),
          toStart |-> toStart + nz + fromLength ]

\* normalizeNumeric: zeros '0' bytes, then from[0..fromLength-1], written at
\* to[toStart], to[toStart+1], ...; returns the buffer and the new toStart
normalizeNumeric(to, from, toStart, fromLength, normalizationSize) ==
    LET zeros == normalizationSize - fromLength
        nz    == Max(zeros, 0)
    IN  [ to      |-> SubSeq(to, 1, toStart)
                        \o [x \in 1..nz |-> 48]
                        \o SubSeq(from, 1, fromLength),
          toStart |-> toStart + nz + fromLength ]

\* the local variables of natural_sort_order as one record
Locals == [i |-> i, j |-> j, k |-> k,
           numericBuffer |-> numericBuffer, outputBuffer |-> outputBuffer]

\* a loop that stops one byte before the capacity
LoopCondEarly(st, data) == st.i < Len(data) /\ st.j < OUTPUT_BUFFER_LENGTH - 1

\* condition of the for loop (line 106)
LoopCond(st, data) == st.i < Len(data) /\ st.j < OUTPUT_BUFFER_LENGTH

\* an accumulator that takes one digit more than the width
TakesDigitInclusive(st, c, size) == isdigit(c) /\ st.k <= size

\* first branch (lines 107-108)
TakesDigit(st, c, size) == isdigit(c) /\ st.k < size

\* a loop body that forgets the byte that ended the run
LoopBodyDropsByte(st, data, size) ==
    LET c == data[st.i + 1] IN
    IF TakesDigit(st, c, size)
    THEN [st EXCEPT !.numericBuffer[st.k + 1] = c, !.k = st.k + 1, !.i = st.i + 1]
    ELSE IF st.k > 0
    THEN LET r == normalizeNumeric(st.outputBuffer, st.numericBuffer,
                                   st.j, st.k, size)
         IN  [st EXCEPT !.outputBuffer = r.to,
                        !.j = r.toStart, !.k = 0, !.i = st.i + 1]
    ELSE [st EXCEPT !.outputBuffer = Append(st.outputBuffer, c),
                    !.j = st.j + 1, !.i = st.i + 1]

\* a loop body that starts a new run with the digit that met a full
\* accumulator
LoopBodyRestartsRun(st, data, size) ==
    LET c == data[st.i + 1] IN
    IF TakesDigit(st, c, size)
    THEN [st EXCEPT !.numericBuffer[st.k + 1] = c, !.k = st.k + 1, !.i = st.i + 1]
    ELSE IF st.k > 0
    THEN LET r == normalizeNumeric(st.outputBuffer, st.numericBuffer,
                                   st.j, st.k, size)
         IN  IF isdigit(c)
             THEN [st EXCEPT !.outputBuffer = r.to, !.j = r.toStart,
                             !.numericBuffer[1] = c, !.k = 1, !.i = st.i + 1]
             ELSE [st EXCEPT !.outputBuffer = Append(r.to, c),
                             !.j = r.toStart + 1, !.k = 0, !.i = st.i + 1]
    ELSE [st EXCEPT !.outputBuffer = Append(st.outputBuffer, c),
                    !.j = st.j + 1, !.i = st.i + 1]

\* body of the for loop followed by its i++ (lines 107-116)
LoopBody(st, data, size) ==
    LET c == data[st.i + 1] IN
    IF TakesDigit(st, c, size)
    THEN [st EXCEPT !.numericBuffer[st.k + 1] = c, !.k = st.k + 1, !.i = st.i + 1]
    ELSE IF st.k > 0
    THEN LET r == normalizeNumeric(st.outputBuffer, st.numericBuffer,
                                   st.j, st.k, size)
         IN  [st EXCEPT !.outputBuffer = Append(r.to, c),
                        !.j = r.toStart + 1, !.k = 0, !.i = st.i + 1]
    ELSE [st EXCEPT !.outputBuffer = Append(st.outputBuffer, c),
                    !.j = st.j + 1, !.i = st.i + 1]

\* lines 119-121: the flush after the loop
PostLoop(st, size) ==
    IF st.k > 0
    THEN LET r == normalizeNumeric(st.outputBuffer, st.numericBuffer,
                                   st.j, st.k, size)
         IN  [st EXCEPT !.outputBuffer = r.to, !.j = r.toStart]
    ELSE st

\* a step that moves the cursor to newj has written the data bytes up to
\* index newj - 1; it is outside the allocation when newj > OUTPUT_DATA_SIZE
WritesOutside(newj) == newj > OUTPUT_DATA_SIZE

SetLocals(st) ==
    /\ i' = st.i
    /\ j' = st.j
    /\ k' = st.k
    /\ numericBuffer' = st.numericBuffer
    /\ outputBuffer' = st.outputBuffer

\* a write outside the allocation is undefined: the bytes land in the
\* memory after the buffer, or the backend dies
LandOrCrash(st, next) ==
    \/ SetLocals(st) /\ pc' = next
    \/ /\ WritesOutside(st.j)
       /\ pc' = "crashed"
       /\ UNCHANGED <<i, j, k, numericBuffer, outputBuffer>>

----------------------------------------------------------------------------
(* One call, iteration by iteration *)

\* the state at entry, after the locals are declared (line 79) and
\* numericSize is fetched (line 92)
Init ==
    /\ original \in Inputs \cup {NULL}
    /\ width \in Widths
    /\ numericSize = width
    /\ i = 0 /\ j = 0 /\ k = 0
    /\ numericBuffer = [x \in 1..NUMERIC_BUFFER_LENGTH |-> UNINIT]
    /\ outputBuffer = <<>>
    /\ warnings = <<>>
    /\ pc = "entry"

\* lines 84-86
ReturnNull ==
    /\ pc = "entry"
    /\ original = NULL
    /\ pc' = "null"
    /\ UNCHANGED <<original, width, numericSize, i, j, k,
                   numericBuffer, outputBuffer, warnings>>

\* lines 89-97
Enter ==
    /\ pc = "entry"
    /\ original # NULL
    /\ numericSize' = EffectiveSize(width)
    /\ pc' = "loop"
    /\ UNCHANGED <<original, width, i, j, k,
                   numericBuffer, outputBuffer, warnings>>

\* lines 107-108
Accumulate ==
    /\ pc = "loop"
    /\ LoopCond(Locals, original)
    /\ TakesDigit(Locals, original[i + 1], numericSize)
    /\ SetLocals(LoopBody(Locals, original, numericSize))
    /\ UNCHANGED <<original, width, numericSize, warnings, pc>>

\* lines 109-112
FlushAndWrite ==
    /\ pc = "loop"
    /\ LoopCond(Locals, original)
    /\ ~TakesDigit(Locals, original[i + 1], numericSize)
    /\ k > 0
    /\ LandOrCrash(LoopBody(Locals, original, numericSize), "loop")
    /\ UNCHANGED <<original, width, numericSize, warnings>>

\* lines 113-115
WriteLiteral ==
    /\ pc = "loop"
    /\ LoopCond(Locals, original)
    /\ ~TakesDigit(Locals, original[i + 1], numericSize)
    /\ k = 0
    /\ LandOrCrash(LoopBody(Locals, original, numericSize), "loop")
    /\ UNCHANGED <<original, width, numericSize, warnings>>

\* lines 106, 119-121: the loop ends, the pending run is flushed
LeaveLoop ==
    /\ pc = "loop"
    /\ ~LoopCond(Locals, original)
    /\ LandOrCrash(PostLoop(Locals, numericSize), "flushed")
    /\ UNCHANGED <<original, width, numericSize, warnings>>

\* lines 124-127
Return ==
    /\ pc = "flushed"
    /\ pc' = "done"
    /\ UNCHANGED <<original, width, numericSize, i, j, k,
                   numericBuffer, outputBuffer, warnings>>

Next ==
    \/ ReturnNull
    \/ Enter
    \/ Accumulate
    \/ FlushAndWrite
    \/ WriteLiteral
    \/ LeaveLoop
    \/ Return

Spec == Init /\ [][Next]_vars



----------------------------------------------------------------------------
(* One call as a single step *)

\* one pass of the for loop, or nothing once its condition is false
Iterate(st, data, size) ==
    IF LoopCond(st, data) THEN LoopBody(st, data, size) ELSE st

\* n passes of the for loop: the first half of them, then the rest from the
\* state m they leave (the test of m.i makes m a value before the second
\* half starts; i is never negative)
RECURSIVE ScanLoop(_, _, _, _)
ScanLoop(st, data, size, n) ==
    IF n = 0 THEN st
    ELSE IF n = 1 THEN Iterate(st, data, size)
    ELSE LET h == n \div 2
             m == ScanLoop(st, data, size, h)
         IN  IF m.i >= 0 THEN ScanLoop(m, data, size, n - h) ELSE m

\* the locals of natural_sort_order(data, w) when it returns (lines 79-124)
natural_sort_order(data, w) ==
    LET size == EffectiveSize(w)
        st0  == [i |-> 0, j |-> 0, k |-> 0,
                 numericBuffer |-> [x \in 1..NUMERIC_BUFFER_LENGTH |-> UNINIT],
                 outputBuffer |-> <<>>]
    IN  PostLoop(ScanLoop(st0, data, size, Len(data)), size)

\* the text returned by natural_sort_order(data, w) (lines 124-127)
normalize(data, w) == natural_sort_order(data, w).outputBuffer

\* the inputs of the single-step calls: also 'a' repeated OUTPUT_BUFFER_LENGTH
\* and OUTPUT_BUFFER_LENGTH + 1 times
PlainInputs ==
    { Rep(<<97>>, n) : n \in OUTPUT_BUFFER_LENGTH..(OUTPUT_BUFFER_LENGTH + 1) }

InitCall ==
    /\ original \in Inputs \cup PlainInputs \cup {NULL}
    /\ width \in Widths
    /\ numericSize = width
    /\ i = 0 /\ j = 0 /\ k = 0
    /\ numericBuffer = [x \in 1..NUMERIC_BUFFER_LENGTH |-> UNINIT]
    /\ outputBuffer = <<>>
    /\ warnings = <<>>
    /\ pc = "entry"

\* lines 84-86
CallNull ==
    /\ pc = "entry"
    /\ original = NULL
    /\ pc' = "null"
    /\ UNCHANGED <<original, width, numericSize, i, j, k,
                   numericBuffer, outputBuffer, warnings>>

\* lines 89-127
Call ==
    /\ pc = "entry"
    /\ original # NULL
    /\ numericSize' = EffectiveSize(width)
    /\ LandOrCrash(natural_sort_order(original, width), "done")
    /\ UNCHANGED <<original, width, warnings>>

NextCall ==
    \/ CallNull
    \/ Call

SpecCall == InitCall /\ [][NextCall]_vars

----------------------------------------------------------------------------
(* Vocabulary of the properties *)

TypeOK ==
    /\ pc \in {"entry", "null", "loop", "flushed", "done", "crashed"}
    /\ Len(outputBuffer) = j

Returned == pc = "done"

\* a maximal digit run of data starts at position s (1-based)
RunStartsAt(data, s) ==
    /\ s \in 1..Len(data)
    /\ isdigit(data[s])
    /\ (s = 1 \/ ~isdigit(data[s - 1]))

\* length of the maximal digit run of data that starts at s
RunLength(data, s) ==
    LET stop == IF \E e \in s..Len(data) : ~isdigit(data[e])
                THEN CHOOSE e \in s..Len(data) :
                        /\ ~isdigit(data[e])
                        /\ \A x \in s..(e - 1) : isdigit(data[x])
                ELSE Len(data) + 1
    IN  stop - s

HasRunLongerThan(data, n) ==
    \E s \in 1..Len(data) : RunStartsAt(data, s) /\ RunLength(data, s) > n

HasDigit(data) == \E x \in 1..Len(data) : isdigit(data[x])

NotDigit(c) == ~isdigit(c)

NonDigits(data) == SelectSeq(data, NotDigit)

Zeros(n) == [x \in 1..n |-> 48]

\* bytewise lexicographic comparison of two byte strings: -1, 0 or 1
Compare(a, b) ==
    LET n == IF Len(a) < Len(b) THEN Len(a) ELSE Len(b) IN
    IF \E x \in 1..n : a[x] # b[x]
    THEN LET d == CHOOSE x \in 1..n :
                     a[x] # b[x] /\ \A y \in 1..(x - 1) : a[y] = b[y]
         IN  IF a[d] < b[d] THEN -1 ELSE 1
    ELSE IF Len(a) < Len(b) THEN -1
    ELSE IF Len(a) > Len(b) THEN 1 ELSE 0

\* the number a digit string denotes
RECURSIVE Value(_)
Value(d) ==
    IF d = <<>> THEN 0
    ELSE 10 * Value(SubSeq(d, 1, Len(d) - 1)) + (d[Len(d)] - 48)

Sign(a, b) == IF a < b THEN -1 ELSE IF a > b THEN 1 ELSE 0

DigitRuns == UNION {[1..m -> {48, 49, 50}] : m \in 1..MaxRun}

\* a pass of the loop that meets a digit while the accumulator is full
DigitOnFull ==
    /\ pc = "loop"
    /\ LoopCond(Locals, original)
    /\ isdigit(original[i + 1])
    /\ k = numericSize

----------------------------------------------------------------------------
(* C1 *)

\* C1: in every state of the scan, of both flushes and of the literal write
\* after an in-loop flush, the write cursor j is at most OUTPUT_BUFFER_LENGTH,
\* no byte is written outside the buffer and the returned text is at most
\* OUTPUT_BUFFER_LENGTH bytes long.
C1_CursorWithinCapacity ==
    /\ j <= OUTPUT_BUFFER_LENGTH
    /\ Len(outputBuffer) <= OUTPUT_BUFFER_LENGTH
    /\ pc # "crashed"

----------------------------------------------------------------------------
(* C6 *)

\* C6: a call whose input holds a digit run longer than the effective width
\* emits a width-exceeded warning, returns a result and does not fail hard.
C6_WidthExceededWarned ==
    (pc \in {"done", "crashed"} /\ HasRunLongerThan(original, numericSize))
        => (pc = "done" /\ warnings # <<>>)

----------------------------------------------------------------------------
(* C10 *)

\* C10: in every state of the scan 0 <= k <= W <= 150 < 200, no digit is
\* stored in the accumulator at an index >= W, and so every flush gets a
\* fromLength in 1..W and a number of zeros W - fromLength >= 0.
C10_AccumulatorBounded ==
    pc \in {"loop", "flushed", "done", "crashed"} =>
        /\ 0 <= k /\ k <= numericSize
        /\ 1 <= numericSize /\ numericSize <= 150
        /\ 150 < NUMERIC_BUFFER_LENGTH
        /\ \A x \in (numericSize + 1)..NUMERIC_BUFFER_LENGTH :
               numericBuffer[x] = UNINIT
        /\ \A x \in 1..k : isdigit(numericBuffer[x])

\* the accumulator is full and one more digit arrives
C10_Witness == DigitOnFull /\ k > 1

----------------------------------------------------------------------------
(* C9 *)

\* C9 as stated: a digit that meets a full accumulator flushes the W digits
\* and becomes the first digit of a new accumulator; it is not written to
\* the output.
C9_DigitStartsNewRun ==
    [][ (DigitOnFull /\ pc' = "loop") =>
            /\ k' = 1
            /\ numericBuffer'[1] = original[i + 1]
            /\ outputBuffer' = outputBuffer \o SubSeq(numericBuffer, 1, numericSize)
      ]_vars

\* C9 amended: a digit that meets a full accumulator flushes the W digits,
\* is itself written to the output as a literal byte right after them, and
\* the accumulator restarts empty; an input that is one digit run of length
\* L > W returns its first W + 1 digits unchanged followed by what the
\* remaining L - W - 1 digits return as an input of their own.
C9_DigitWrittenLiteral ==
    /\ [][ (DigitOnFull /\ pc' = "loop") =>
              /\ k' = 0
              /\ j' = j + numericSize + 1
              /\ outputBuffer' = outputBuffer
                                   \o SubSeq(numericBuffer, 1, numericSize)
                                   \o <<original[i + 1]>>
         ]_vars
    /\ [](( /\ Returned
            /\ \A x \in 1..Len(original) : isdigit(original[x])
            /\ Len(original) > numericSize )
          => outputBuffer =
                SubSeq(original, 1, numericSize + 1)
                  \o normalize(SubSeq(original, numericSize + 2, Len(original)),
                               width))

\* a run of W + 2 digits or more was scanned to its end
C9_Witness ==
    /\ Returned
    /\ \A x \in 1..Len(original) : isdigit(original[x])
    /\ Len(original) > numericSize + 1

----------------------------------------------------------------------------
(* C2 *)

\* the maximal digit run of original that starts at s has at most W digits,
\* the scan consumed it, and the returned text holds, at the offset that the
\* bytes before the run return on their own, W - L zeros and then the L
\* digits, followed by the byte that follows the run in the input (or by
\* the end of the text if the run ends the input)
PaddedRunAt(s) ==
    LET L   == RunLength(original, s)
        W   == numericSize
        pos == Len(normalize(SubSeq(original, 1, s - 1), width))
    IN  /\ i >= s + L - 1
        /\ Len(outputBuffer) >= pos + W
        /\ SubSeq(outputBuffer, pos + 1, pos + W)
             = Zeros(W - L) \o SubSeq(original, s, s + L - 1)
        /\ IF s + L - 1 = Len(original)
           THEN Len(outputBuffer) = pos + W
           ELSE /\ Len(outputBuffer) > pos + W
                /\ outputBuffer[pos + W + 1] = original[s + L]

ShortRunConsumedAt(s) ==
    /\ s <= i
    /\ RunStartsAt(original, s)
    /\ RunLength(original, s) <= numericSize

\* C2: every maximal digit run of length L <= W that the scan consumed is
\* replaced in the returned text by exactly W bytes, W - L zeros and then
\* its L digits in order; ("abc123def", 5) returns "abc00123def",
\* ("track7", 3) returns "track007" and ("v1.2.10", 2) returns "v01.02.10".
C2_RunsPadded ==
    Returned =>
        /\ \A s \in 1..Len(original) : ShortRunConsumedAt(s) => PaddedRunAt(s)
        /\ (original = <<97, 98, 99, 49, 50, 51, 100, 101, 102>> /\ width = 5)
              => outputBuffer = <<97, 98, 99, 48, 48, 49, 50, 51, 100, 101, 102>>
        /\ (original = <<116, 114, 97, 99, 107, 55>> /\ width = 3)
              => outputBuffer = <<116, 114, 97, 99, 107, 48, 48, 55>>
        /\ (original = <<118, 49, 46, 50, 46, 49, 48>> /\ width = 2)
              => outputBuffer = <<118, 48, 49, 46, 48, 50, 46, 49, 48>>

\* a call returned whose input has a run shorter than W in its middle and
\* a run at its end
C2_Witness ==
    /\ Returned
    /\ \E s \in 2..(Len(original) - 1) :
          /\ ShortRunConsumedAt(s)
          /\ RunLength(original, s) < numericSize
          /\ s + RunLength(original, s) - 1 < Len(original)
    /\ \E s \in 1..Len(original) :
          /\ ShortRunConsumedAt(s)
          /\ s + RunLength(original, s) - 1 = Len(original)

----------------------------------------------------------------------------
(* C3 *)

\* original with its maximal digit run at s replaced by the digit run b
WithRun(s, b) ==
    SubSeq(original, 1, s - 1) \o b
      \o SubSeq(original, s + RunLength(original, s), Len(original))

\* the returned texts of original and of WithRun(s, b) compare as the
\* numbers that the two runs denote
OrderedAs(s, b) ==
    Compare(outputBuffer, normalize(WithRun(s, b), width))
      = Sign(Value(SubSeq(original, s, s + RunLength(original, s) - 1)),
             Value(b))

\* the runs whose replacement is compared: the maximal digit runs of
\* original of at most W digits that start within MaxLen bytes of either end
\* of the input
RunAt(s) ==
    /\ RunStartsAt(original, s)
    /\ RunLength(original, s) <= numericSize
    /\ (s <= MaxLen \/ s > Len(original) - MaxLen)

\* C3 as stated: for two inputs that differ in one maximal digit run only,
\* and a width at least the length of both runs, the returned texts compare
\* bytewise as the numeric values of the two runs do.
C3_OrderPreserved ==
    Returned =>
        \A s \in 1..Len(original) : RunAt(s) =>
            \A b \in DigitRuns : Len(b) <= numericSize => OrderedAs(s, b)

\* C3 amended: the same, for a run that the scan reaches, that is whose
\* first digit is read before the write cursor gets to OUTPUT_BUFFER_LENGTH.
C3_OrderPreservedWhenReached ==
    Returned =>
        \A s \in 1..Len(original) : (RunAt(s) /\ s <= i) =>
            \A b \in DigitRuns : Len(b) <= numericSize => OrderedAs(s, b)

\* "item2" was normalized with a width that also fits "10"
C3_Witness ==
    /\ Returned
    /\ original = <<105, 116, 101, 109, 50>>
    /\ numericSize >= 2
    /\ Compare(outputBuffer, normalize(WithRun(5, <<49, 48>>), width)) = -1

----------------------------------------------------------------------------
(* C4 *)

\* C4: normalizing the returned text again with the same width returns it
\* unchanged.
C4_Idempotent ==
    Returned => normalize(outputBuffer, width) = outputBuffer

\* a call returned a text that differs from its input, for an input with a
\* digit run longer than W
C4_Witness ==
    /\ Returned
    /\ outputBuffer # original
    /\ HasRunLongerThan(original, numericSize)

----------------------------------------------------------------------------
(* C5 *)

\* C5 as stated: an input without a digit byte, of any length, is returned
\* unchanged.
C5_NoDigitsUnchanged ==
    (Returned /\ ~HasDigit(original)) => outputBuffer = original

\* C5 amended: an input without a digit byte and of at most
\* OUTPUT_BUFFER_LENGTH bytes is returned unchanged.
C5_NoDigitsUnchangedWithinCapacity ==
    (Returned /\ ~HasDigit(original) /\ Len(original) <= OUTPUT_BUFFER_LENGTH)
        => outputBuffer = original

\* an input of exactly OUTPUT_BUFFER_LENGTH bytes, none a digit, returned
C5_Witness ==
    /\ Returned
    /\ ~HasDigit(original)
    /\ Len(original) = OUTPUT_BUFFER_LENGTH

----------------------------------------------------------------------------
(* C7 *)

\* C7: the width used is the requested one when it is in 1..150 and 75
\* otherwise; a call with a requested width <= 0 or > 150 returns what the
\* call with width 75 returns, and raises nothing.
C7_WidthClamp ==
    Returned =>
        /\ (width >= 1 /\ width <= 150) => numericSize = width
        /\ (width <= 0 \/ width > 150) =>
              /\ numericSize = 75
              /\ outputBuffer = normalize(original, 75)
              /\ warnings = <<>>

\* a call with a width out of range returned a text with a padded run
C7_Witness ==
    /\ Returned
    /\ width > 150
    /\ HasDigit(original)
    /\ Len(outputBuffer) >= 75

----------------------------------------------------------------------------
(* C8 *)

\* C8: the non-digit bytes of the returned text are the non-digit bytes of
\* the consumed part of the input, in the same order.
C8_NonDigitsPreserved ==
    Returned => NonDigits(outputBuffer) = NonDigits(SubSeq(original, 1, i))

\* a call returned for an input with two different non-digit bytes around
\* a digit run
C8_Witness ==
    /\ Returned
    /\ Len(original) <= MaxLen
    /\ \E x, y, z \in 1..Len(original) :
          /\ x < y /\ y < z
          /\ ~isdigit(original[x]) /\ isdigit(original[y])
          /\ ~isdigit(original[z]) /\ original[x] # original[z]

====
